---- MODULE Spec2Model ----
(***************************************************************************)
(* A model of tidylibrary.py: the metadata cleaning functions, the         *)
(* book-number derivation, the library scan that builds the move plans,    *)
(* and the execution loop that applies them to the filesystem.             *)
(*                                                                         *)
(* Text is a sequence of one-character strings wherever the code looks     *)
(* inside it; Str turns such a sequence into a TLA+ string.                *)
(***************************************************************************)
EXTENDS Integers, Sequences, FiniteSets, TLC

VARIABLES
    fs,                 \* the regular files and sub-directories below the root
    dirs,               \* the directories that exist below the root
    logOK,              \* whether the audit log file can still be written
    faults,             \* environment faults injected so far
    pc,                 \* where main() is
    run,                \* 1 = first run of the program, 2 = second run
    meta_files,         \* main: meta_files
    idx,                \* main: position of the scan loop in meta_files
    planned_moves,      \* main: planned_moves
    stats,              \* main: stats
    choice,             \* main: choice
    exec_stats,         \* main: exec_stats
    collision_tracker,  \* main: collision_tracker
    log,                \* the lines appended to tidy_library_log.txt
    i,                  \* main: index of the apply loop in planned_moves
    j,                  \* execute_move: index of the pair loop in move_plan
    hist,               \* what happened to each plan of the apply loop
    confirm,            \* main: the last answer to the per-book prompt
    fs0,                \* the filesystem when the current execute_move began
    prev,               \* how the first run of the program ended
    arg,                \* input of the pure function under test
    res,                \* its result
    res2                \* the result of applying it again

pvars == <<fs, dirs, logOK, faults, pc, run, meta_files, idx, planned_moves,
           stats, choice, exec_stats, collision_tracker, log, i, j, hist,
           confirm, fs0, prev>>
svars == <<arg, res, res2>>
vars == <<pvars, svars>>

(***************************************************************************)
(* Bounds of the model.                                                    *)
(***************************************************************************)
MaxLen == 4        \* longest text given to the pure functions
MaxAudio == 2      \* most audio-named entries in the first item directory
MaxFaults == 1     \* most environment faults in one behaviour

(***************************************************************************)
(* Text helpers: Python's str methods, on sequences of characters.         *)
(***************************************************************************)
Whitespace == {" ", "\t", "\n"}
Digits == {"0", "1", "2", "3", "4", "5", "6", "7", "8", "9"}
Quotes == {"'", "\""}

RECURSIVE Str(_)
Str(s) == IF s = <<>> THEN "" ELSE Head(s) \o Str(Tail(s))

Contains(s, c) == \E k \in 1..Len(s) : s[k] = c

\* position of the first c in s (s contains c)
First(s, c) == CHOOSE k \in 1..Len(s) : s[k] = c /\ \A m \in 1..(k-1) : s[m] # c

\* str.split(c): the pieces of s between the occurrences of c
RECURSIVE split(_, _)
split(s, c) ==
    IF ~Contains(s, c) THEN <<s>>
    ELSE <<SubSeq(s, 1, First(s, c) - 1)>> \o split(SubSeq(s, First(s, c) + 1, Len(s)), c)

RECURSIVE lstrip(_)
lstrip(s) == IF s # <<>> /\ Head(s) \in Whitespace THEN lstrip(Tail(s)) ELSE s

RECURSIVE rstrip(_)
rstrip(s) ==
    IF s # <<>> /\ s[Len(s)] \in Whitespace THEN rstrip(SubSeq(s, 1, Len(s) - 1)) ELSE s

strip(s) == lstrip(rstrip(s))

isdigit(s) == s # <<>> /\ \A k \in 1..Len(s) : s[k] \in Digits

\* str.zfill(2): zeros go after a leading sign
zfill2(s) ==
    IF Len(s) >= 2 THEN s
    ELSE IF Len(s) = 1 /\ s[1] \in {"+", "-"} THEN <<s[1], "0">>
    ELSE IF Len(s) = 1 THEN <<"0", s[1]>>
    ELSE <<"0", "0">>

(***************************************************************************)
(* clean_metadata.  A value is None, a list of values or a string:         *)
(* [t |-> "none" | "list" | "str", s |-> its characters, l |-> its items]. *)
(***************************************************************************)
None == [t |-> "none", s |-> <<>>, l |-> <<>>]
StrV(s) == [t |-> "str", s |-> s, l |-> <<>>]
ListV(l) == [t |-> "list", s |-> <<>>, l |-> l]

\* re.sub(r"^\[['\"]", "", s)
sub_open(s) ==
    IF Len(s) >= 2 /\ s[1] = "[" /\ s[2] \in Quotes THEN SubSeq(s, 3, Len(s)) ELSE s

\* re.sub(r"['\"]\]$", "", s)
sub_close(s) ==
    IF Len(s) >= 2 /\ s[Len(s)] = "]" /\ s[Len(s) - 1] \in Quotes
    THEN SubSeq(s, 1, Len(s) - 2) ELSE s

clean_str(s0) ==
    LET s1 == IF Contains(s0, ",") THEN split(s0, ",")[1] ELSE s0
    IN  strip(sub_close(sub_open(s1)))

RECURSIVE clean_metadata(_)
clean_metadata(value) ==
    IF value.t = "none" THEN <<>>
    ELSE IF value.t = "list"
         THEN IF Len(value.l) > 0 THEN clean_metadata(value.l[1]) ELSE <<>>
    ELSE clean_str(value.s)

(***************************************************************************)
(* clean_filename                                                          *)
(***************************************************************************)
invalid_chars == {"<", ">", ":", "\"", "/", "\\", "|", "?", "*"}

\* re.sub(r'\s+', ' ', name): every run of whitespace becomes one space
RECURSIVE collapse(_)
collapse(s) ==
    IF s = <<>> THEN <<>>
    ELSE IF Head(s) \in Whitespace
         THEN <<" ">> \o collapse(lstrip(s))
    ELSE <<Head(s)>> \o collapse(Tail(s))

clean_filename(name) ==
    IF name = <<>> THEN <<>>
    ELSE strip(collapse(SelectSeq(name, LAMBDA c : c \notin invalid_chars)))

(***************************************************************************)
(* The series title and the book number main() derives from series_field.  *)
(***************************************************************************)
series_title_of(series_field) ==
    IF Contains(series_field, "#")
    THEN clean_filename(split(series_field, "#")[1])
    ELSE clean_filename(series_field)

book_number_of(series_field) ==
    IF Contains(series_field, "#")
    THEN LET parts == split(series_field, "#")
             raw_num == strip(parts[2])
         IN  IF Contains(raw_num, ".")
             THEN LET n_p == split(raw_num, ".")
                  IN  zfill2(n_p[1]) \o <<".">> \o n_p[2]
             ELSE IF isdigit(raw_num) THEN zfill2(raw_num)
             ELSE raw_num
    ELSE <<>>

(***************************************************************************)
(* Metadata documents.  The content of a metadata.json file is             *)
(*   [json |-> "invalid"]            not valid JSON: json.load raises      *)
(*   [json |-> "list"]               valid JSON that is a list             *)
(*   [json |-> "map", top, metaT, meta, duration, meta_duration]           *)
(* top and meta map every key to its value (None when the key is absent or *)
(* null); metaT says what the 'metadata' key holds: "absent", "null" or    *)
(* "map".  A duration of 0 stands for an absent one.                       *)
(***************************************************************************)
FieldKeys == {"authorName", "author", "authors", "bookAuthor", "title", "bookTitle",
              "narratorName", "narrator", "narrators", "seriesName", "series"}
Obj(f) == [k \in FieldKeys |-> IF k \in DOMAIN f THEN f[k] ELSE None]
NoFields == [k \in FieldKeys |-> None]

Invalid == [json |-> "invalid", top |-> NoFields, metaT |-> "absent", meta |-> NoFields,
            duration |-> 0, meta_duration |-> 0]
JsonList == [json |-> "list", top |-> NoFields, metaT |-> "absent", meta |-> NoFields,
             duration |-> 0, meta_duration |-> 0]

\* {"title": "Tale", "author": "Ann", "duration": 10}
DocA == [json |-> "map",
         top |-> Obj([title |-> StrV(<<"T", "a", "l", "e">>),
                      author |-> StrV(<<"A", "n", "n">>)]),
         metaT |-> "absent", meta |-> NoFields, duration |-> 10, meta_duration |-> 0]
\* {"metadata": {"title": "To:me", "authors": ["Ann", "Bo"], "narrator": "Ned",
\*               "series": "Saga #1", "duration": 20}}
DocB == [json |-> "map", top |-> NoFields, metaT |-> "map",
         meta |-> Obj([title |-> StrV(<<"T", "o", ":", "m", "e">>),
                       authors |-> ListV(<<StrV(<<"A", "n", "n">>), StrV(<<"B", "o">>)>>),
                       narrator |-> StrV(<<"N", "e", "d">>),
                       series |-> StrV(<<"S", "a", "g", "a", " ", "#", "1">>)]),
         duration |-> 0, meta_duration |-> 20]
\* {"title": "Null", "author": "Ann", "metadata": null}
DocNullMeta == [json |-> "map",
                top |-> Obj([title |-> StrV(<<"N", "u", "l", "l">>),
                             author |-> StrV(<<"A", "n", "n">>)]),
                metaT |-> "null", meta |-> NoFields, duration |-> 0, meta_duration |-> 0]

\* the document a metadata.json entry holds, by the entry's data label
DocOf(label) ==
    CASE label = "A" -> DocA
      [] label = "B" -> DocB
      [] label = "nullmeta" -> DocNullMeta
      [] label = "list" -> JsonList
      [] OTHER -> Invalid

\* the first key of key_names whose value in obj is not None, or 0
FirstKey(obj, key_names) ==
    LET hits == {k \in 1..Len(key_names) : obj[key_names[k]] # None}
    IN  IF hits = {} THEN 0 ELSE CHOOSE k \in hits : \A m \in hits : k <= m

\* get_metadata_value on a document that is a mapping
get_metadata_value(data, key_names) ==
    IF FirstKey(data.top, key_names) # 0
    THEN clean_metadata(data.top[key_names[FirstKey(data.top, key_names)]])
    ELSE IF data.metaT = "map" /\ FirstKey(data.meta, key_names) # 0
         THEN clean_metadata(data.meta[key_names[FirstKey(data.meta, key_names)]])
    ELSE <<>>

\* data.get(key) raises AttributeError when the document is not a mapping
FieldLookupRaises(data) == data.json # "map"

\* line 156: data.get('duration') or data.get('metadata', {}).get('duration') or 0
\* raises AttributeError when 'metadata' holds something that has no get()
DurationRaises(data) == data.duration = 0 /\ data.metaT = "null"
duration_raw(data) ==
    IF data.duration # 0 THEN data.duration
    ELSE IF data.metaT = "map" THEN data.meta_duration
    ELSE 0

(***************************************************************************)
(* The filesystem below the root.  A directory is the sequence of its path *)
(* components; a filename is [stem, idx, ext], standing for  stem.ext  or  *)
(* "stem - NN.ext" when idx > 0.  An entry of fs is one directory entry:   *)
(* [dir, name, orig, data], where orig (the path the file had in the       *)
(* initial library) identifies the file's content and data is "sub" for a  *)
(* sub-directory, the document label for a metadata.json, "file" else.     *)
(***************************************************************************)
Name(stem, n, ext) == [stem |-> stem, idx |-> n, ext |-> ext]
Path(d, n) == [dir |-> d, name |-> n]
NoName == Name("", 0, "")
MetaName == Name("metadata", 0, "json")

PathOf(e) == Path(e.dir, e.name)
At(f, p) == {e \in f : e.dir = p.dir /\ e.name = p.name}
exists(f, p) == At(f, p) # {}
is_file(f, p) == \E e \in At(f, p) : e.data # "sub"
iterdir(f, d) == {e \in f : e.dir = d}
Contents(f) == {[orig |-> e.orig, data |-> e.data] : e \in f}

Prefixes(d) == {SubSeq(d, 1, k) : k \in 1..Len(d)}
IsUnder(d, top) == Len(d) >= Len(top) /\ SubSeq(d, 1, Len(top)) = top

\* any(d.iterdir()): an entry or a sub-directory directly inside d
HasEntries(f, ds, d) ==
    \/ iterdir(f, d) # {}
    \/ \E c \in ds : Len(c) = Len(d) + 1 /\ IsUnder(c, d)

(***************************************************************************)
(* natural_sort_key, on the filenames of the model: the key of a name is   *)
(* its stem's place in the natural order of the stems, then its index (an  *)
(* unindexed "stem.ext" sorts after every "stem - NN.ext", as '.' sorts    *)
(* after ' '), then its extension.                                         *)
(***************************************************************************)
StemOrder == <<"", "a", "Ann - Saga 01 - Tome", "Ann - Tale", "b", "cover", "metadata", "x">>
StemRank(s) == CHOOSE k \in 1..Len(StemOrder) : StemOrder[k] = s
ExtOrder == <<"", "jpg", "json", "mp3">>
ExtRank(x) == CHOOSE k \in 1..Len(ExtOrder) : ExtOrder[k] = x
IdxRank(n) == IF n = 0 THEN 100 ELSE n

natural_sort_key(n) == <<StemRank(n.stem), IdxRank(n.idx), ExtRank(n.ext)>>
KeyLeq(a, b) ==
    \/ a[1] < b[1]
    \/ a[1] = b[1] /\ a[2] < b[2]
    \/ a[1] = b[1] /\ a[2] = b[2] /\ a[3] <= b[3]

\* sorted(S, key=lambda x: natural_sort_key(x.name))
RECURSIVE sorted(_)
sorted(S) ==
    IF S = {} THEN <<>>
    ELSE LET m == CHOOSE x \in S : \A y \in S :
                      KeyLeq(natural_sort_key(x.name), natural_sort_key(y.name))
         IN  <<m>> \o sorted(S \ {m})

audio_extensions == {"mp3", "m4b", "m4a", "flac", "ogg"}

(***************************************************************************)
(* One iteration of the scan loop of main(): lines 146-221.                *)
(***************************************************************************)
Chars(UnknownWhat) == <<"U", "n", "k", "n", "o", "w", "n", " ">> \o UnknownWhat
UnknownAuthor == Chars(<<"A", "u", "t", "h", "o", "r">>)
UnknownTitle == Chars(<<"T", "i", "t", "l", "e">>)
UnknownNarrator == Chars(<<"N", "a", "r", "r", "a", "t", "o", "r">>)

\* Python's  x or default
Or(x, default) == IF x = <<>> THEN default ELSE x

NonEmpty(parts) == SelectSeq(parts, LAMBDA q : q # <<>>)

RECURSIVE join(_, _)
join(parts, sep) ==
    IF parts = <<>> THEN <<>>
    ELSE IF Len(parts) = 1 THEN parts[1]
    ELSE parts[1] \o sep \o join(Tail(parts), sep)

\* the normalized fields of a document that is a mapping (lines 152-155)
Record(data) ==
    [author |-> Or(get_metadata_value(data, <<"authorName", "author", "authors", "bookAuthor">>),
                   UnknownAuthor),
     book_title |-> Or(get_metadata_value(data, <<"title", "bookTitle">>), UnknownTitle),
     narrator |-> Or(get_metadata_value(data, <<"narratorName", "narrator", "narrators">>),
                     UnknownNarrator),
     series_field |-> get_metadata_value(data, <<"seriesName", "series">>)]

\* lines 158-170
add_stats(st, rec, dur) ==
    [st EXCEPT
        !.authors = @ \cup {Str(rec.author)},
        !.narrators = IF rec.narrator # UnknownNarrator
                      THEN @ \cup {Str(rec.narrator)} ELSE @,
        !.series = IF rec.series_field # <<>>
                   THEN @ \cup {Str(strip(split(rec.series_field, "#")[1]))} ELSE @,
        !.standalone_count = IF rec.series_field # <<>> THEN @ ELSE @ + 1,
        !.total_duration = @ + dur]

\* lines 188-195; a path component that is empty adds nothing to the path
target_dir_of(rec) ==
    LET series_title == series_title_of(rec.series_field)
        book_number == book_number_of(rec.series_field)
        c_author == clean_filename(rec.author)
        c_title == clean_filename(rec.book_title)
        folder_label == IF book_number # <<>>
                        THEN strip(book_number \o <<" ">> \o c_title) ELSE c_title
        comps == NonEmpty(IF series_title # <<>>
                          THEN <<c_author, series_title, folder_label>>
                          ELSE <<c_author, c_title>>)
    IN  [k \in 1..Len(comps) |-> Str(comps[k])]

\* lines 207-211
base_name_of(rec) ==
    LET series_title == series_title_of(rec.series_field)
        book_number == book_number_of(rec.series_field)
        name_parts == <<clean_filename(rec.author)>>
                      \o (IF series_title # <<>>
                          THEN <<strip(series_title \o <<" ">> \o book_number)>> ELSE <<>>)
                      \o <<clean_filename(rec.book_title)>>
    IN  join(NonEmpty(name_parts), <<" ", "-", " ">>)

\* lines 212-213: the index is appended only when there are several audio
\* files, the extension is kept, the whole goes through clean_filename
final_filename(base_name, k, num_audio, ext) ==
    Name(Str(clean_filename(base_name)), IF num_audio > 1 THEN k ELSE 0, ext)

\* lines 197-198: every entry with an audio extension, whatever its type
audio_files_of(f, d) == sorted({e \in iterdir(f, d) : e.name.ext \in audio_extensions})

\* lines 204-217
move_plan_of(f, d, target_dir, base_name) ==
    LET audio_files == audio_files_of(f, d)
        num_audio == Len(audio_files)
        others == sorted({e \in iterdir(f, d) :
                            /\ e.data # "sub"
                            /\ \A k \in 1..num_audio : audio_files[k] # e})
    IN  [k \in 1..num_audio |->
            <<PathOf(audio_files[k]),
              Path(target_dir,
                   final_filename(base_name, k, num_audio, audio_files[k].name.ext))>>]
        \o [k \in 1..Len(others) |->
            <<PathOf(others[k]), Path(target_dir, others[k].name)>>]

\* line 219
needs_plan(old_book_dir, target_dir, move_plan) ==
    \/ old_book_dir # target_dir
    \/ \E k \in 1..Len(move_plan) : move_plan[k][1].name # move_plan[k][2].name

\* lines 200-202: every regular file of the directory counts one unit of size
size_of(f, d) == Cardinality({e \in iterdir(f, d) : e.data # "sub"})

\* lines 152-155 and 172-195 for each document of the model that is a mapping
Naming ==
    [label \in {"A", "B", "nullmeta"} |->
        [rec |-> Record(DocOf(label)),
         target_dir |-> target_dir_of(Record(DocOf(label))),
         base_name |-> base_name_of(Record(DocOf(label)))]]

\* the whole iteration for the metadata.json entry e: the new stats and the
\* plans to append (none or one).  An exception leaves what was done before it.
scan_item(f, e, st) ==
    LET data == DocOf(e.data)
        old_book_dir == e.dir
        counted == [st EXCEPT !.books = @ + 1]
    IN  IF data.json = "invalid" THEN [stats |-> st, plans |-> <<>>]
        ELSE IF FieldLookupRaises(data) \/ DurationRaises(data)
             THEN [stats |-> counted, plans |-> <<>>]
        ELSE LET rec == Naming[e.data].rec
                 target_dir == Naming[e.data].target_dir
                 move_plan == move_plan_of(f, old_book_dir, target_dir,
                                           Naming[e.data].base_name)
                 st2 == [add_stats(counted, rec, duration_raw(data))
                            EXCEPT !.total_size = @ + size_of(f, old_book_dir)]
             IN  [stats |-> st2,
                  plans |-> IF needs_plan(old_book_dir, target_dir, move_plan)
                            THEN <<[title |-> Str(rec.book_title),
                                    old_dir |-> old_book_dir,
                                    target_dir |-> target_dir,
                                    move_plan |-> move_plan]>>
                            ELSE <<>>]

NoStats == [books |-> 0, authors |-> {}, narrators |-> {}, series |-> {},
            total_size |-> 0, total_duration |-> 0, standalone_count |-> 0]

(***************************************************************************)
(* execute_move, one pair of move_plan: lines 76-86.                       *)
(***************************************************************************)
\* which branch the pair (old_f, new_f) takes; resolve() is the identity on
\* the paths of the model (no links, no relative components)
pair_case(f, old_f, new_f) ==
    IF ~is_file(f, old_f) THEN "missing"
    ELSE IF exists(f, new_f) /\ old_f = new_f THEN "same"
    ELSE IF exists(f, new_f) THEN "conflict"
    ELSE "move"

\* shutil.move(old_f, new_f) for a regular file: a rename, which replaces
\* whatever file is at new_f
move(f, old_f, new_f) ==
    (f \ (At(f, old_f) \cup At(f, new_f)))
    \cup {[e EXCEPT !.dir = new_f.dir, !.name = new_f.name] : e \in At(f, old_f)}

\* target_dir.mkdir(parents=True, exist_ok=True)
mkdir(ds, d) == ds \cup Prefixes(d)

\* line 87 without its emptiness test
should_cleanup_any(f, ds, d) == d \in ds

\* line 87
should_cleanup(f, ds, d) == d \in ds /\ ~HasEntries(f, ds, d)

\* shutil.rmtree(d): d and everything below it
rmtree_fs(f, d) == {e \in f : ~IsUnder(e.dir, d)}
rmtree_dirs(ds, d) == {c \in ds : ~IsUnder(c, d)}

(***************************************************************************)
(* The audit log: one record per line written by log_event.                *)
(***************************************************************************)
Event(ev, title, old, new) == [ev |-> ev, title |-> title, old |-> old, new |-> new]
SessionStart == Event("SESSION START", "", NoName, NoName)
StartBookEv(title) == Event("START BOOK", title, NoName, NoName)
ConflictEv(new) == Event("CONFLICT", "", NoName, new)
MovedEv(old, new) == Event("MOVED", "", old, new)
CleanupEv(d) == Event("CLEANUP", d[Len(d)], NoName, NoName)
ErrorEv == Event("ERROR", "", NoName, NoName)

(***************************************************************************)
(* The environment.  A fault is "io" (the filesystem call of the step      *)
(* raises OSError), "log" (the step's log_event raises, once) or "logdown"  *)
(* (the log file stops being writable: the step's log_event and every      *)
(* later one raise).                                                       *)
(***************************************************************************)
FaultsFor(kinds) == {"none"} \cup (IF faults < MaxFaults THEN kinds ELSE {})
Inject(flt) ==
    /\ faults' = IF flt = "none" THEN faults ELSE faults + 1
    /\ logOK' = (logOK /\ flt # "logdown")
\* the log_event of the step under fault flt writes its line
Written(flt) == logOK /\ flt \notin {"log", "logdown"}

(***************************************************************************)
(* The initial library: an item directory holds a metadata.json and some   *)
(* other entries.                                                          *)
(***************************************************************************)
TargetA == target_dir_of(Record(DocA))
TargetB == target_dir_of(Record(DocB))
RawA == Name("a", 0, "mp3")
RawB == Name("b", 0, "mp3")
Cover == Name("cover", 0, "jpg")
SubDir == Name("x", 0, "mp3")

Entry(d, n, data) == [dir |-> d, name |-> n, orig |-> Path(d, n), data |-> data]
Item(d, label, names, sub) ==
    {Entry(d, MetaName, label)}
    \cup {Entry(d, n, "file") : n \in names}
    \cup (IF sub THEN {Entry(d, SubDir, "sub")} ELSE {})

AudioNames1 == {RawA, RawB, final_filename(base_name_of(Record(DocA)), 1, 2, "mp3")}
Items1 ==
    {Item(d, label, names, sub) :
        d \in {<<"d1">>, TargetA},
        label \in {"A", "B", "nullmeta", "list", "bad"},
        names \in {S \in SUBSET AudioNames1 : Cardinality(S) <= MaxAudio},
        sub \in BOOLEAN}
Items2 ==
    {{}} \cup
    {Item(d, label, {RawA, Cover}, FALSE) :
        d \in {<<"d2">>, TargetA, TargetB},
        label \in {"A", "B"}}

DirsOf(f) == UNION {Prefixes(e.dir) : e \in f}

NoExecStats == [applied |-> 0, skipped |-> 0, errors |-> 0]
NoPrev == [choice |-> "", quit |-> FALSE, skipped |-> 0, errors |-> 0, collisions |-> {}]

ProgramStart ==
    /\ pc = "start"
    /\ meta_files = <<>>
    /\ idx = 1
    /\ planned_moves = <<>>
    /\ stats = NoStats
    /\ choice = ""
    /\ confirm = ""
    /\ exec_stats = NoExecStats
    /\ collision_tracker = {}
    /\ i = 0
    /\ j = 0
    /\ hist = <<>>
    /\ fs0 = {}

Init ==
    /\ \E it1 \in Items1 : \E it2 \in Items2 :
          /\ \A e1 \in it1 : \A e2 \in it2 : e1.dir # e2.dir
          /\ fs = it1 \cup it2
    /\ dirs = DirsOf(fs)
    /\ logOK = TRUE
    /\ faults = 0
    /\ run = 1
    /\ log = <<>>
    /\ prev = NoPrev
    /\ ProgramStart
    /\ arg = None /\ res = <<>> /\ res2 = <<>>

(***************************************************************************)
(* main(): the scan.                                                       *)
(***************************************************************************)
\* line 127: rglob yields the metadata.json files in an order of its own
ListMeta ==
    /\ pc = "start"
    /\ LET found == {PathOf(e) : e \in {x \in fs : x.name = MetaName /\ x.data # "sub"}}
           n == Cardinality(found)
       IN  \E order \in [1..n -> found] :
              /\ \A a, b \in 1..n : a # b => order[a] # order[b]
              /\ meta_files' = order
    /\ pc' = "scan"
    /\ UNCHANGED <<fs, dirs, logOK, faults, run, idx, planned_moves, stats, choice,
                   exec_stats, collision_tracker, log, i, j, hist, confirm, fs0, prev>>
    /\ UNCHANGED svars

\* lines 142-221, one iteration
ScanItem ==
    /\ pc = "scan"
    /\ idx <= Len(meta_files)
    /\ LET e == CHOOSE x \in At(fs, meta_files[idx]) : TRUE
           r == scan_item(fs, e, stats)
       IN  /\ stats' = r.stats
           /\ planned_moves' = planned_moves \o r.plans
    /\ idx' = idx + 1
    /\ UNCHANGED <<fs, dirs, logOK, faults, pc, run, meta_files, choice, exec_stats,
                   collision_tracker, log, i, j, hist, confirm, fs0, prev>>
    /\ UNCHANGED svars

ScanComplete == pc = "scan" /\ idx > Len(meta_files)

(***************************************************************************)
(* main(): the menu, lines 232-250.                                        *)
(***************************************************************************)
AlreadyTidy ==
    /\ ScanComplete
    /\ planned_moves = <<>>
    /\ pc' = "tidy"
    /\ UNCHANGED <<fs, dirs, logOK, faults, run, meta_files, idx, planned_moves, stats,
                   choice, exec_stats, collision_tracker, log, i, j, hist, confirm, fs0,
                   prev>>
    /\ UNCHANGED svars

ChooseExit ==
    /\ ScanComplete
    /\ planned_moves # <<>>
    /\ choice' = "3"
    /\ pc' = "exited"
    /\ UNCHANGED <<fs, dirs, logOK, faults, run, meta_files, idx, planned_moves, stats,
                   exec_stats, collision_tracker, log, i, j, hist, confirm, fs0, prev>>
    /\ UNCHANGED svars

\* choice '1' or '2': the session line is written outside any try
ChooseApply ==
    /\ ScanComplete
    /\ planned_moves # <<>>
    /\ run = 1
    /\ \E c \in {"1", "2"} : choice' = c
    /\ \E flt \in FaultsFor({"logdown"}) :
          /\ Inject(flt)
          /\ IF Written(flt)
             THEN /\ log' = Append(log, SessionStart)
                  /\ pc' = "loop"
                  /\ i' = 1
             ELSE /\ log' = log
                  /\ pc' = "crashed"
                  /\ i' = i
    /\ hist' = [k \in 1..Len(planned_moves) |->
                   [started |-> FALSE, pairs |-> 0, ret |-> "none", occupied |-> {}]]
    /\ UNCHANGED <<fs, dirs, run, meta_files, idx, planned_moves, stats, exec_stats,
                   collision_tracker, j, confirm, fs0, prev>>
    /\ UNCHANGED svars

(***************************************************************************)
(* main(): the apply loop, lines 251-267.                                  *)
(***************************************************************************)
Finish ==
    /\ pc = "loop"
    /\ i > Len(planned_moves)
    /\ pc' = "done"
    /\ UNCHANGED <<fs, dirs, logOK, faults, run, meta_files, idx, planned_moves, stats,
                   choice, exec_stats, collision_tracker, log, i, j, hist, confirm, fs0,
                   prev>>
    /\ UNCHANGED svars

\* line 259
Quit ==
    /\ pc = "loop"
    /\ i <= Len(planned_moves)
    /\ choice = "2"
    /\ confirm' = "q"
    /\ pc' = "done"
    /\ UNCHANGED <<fs, dirs, logOK, faults, run, meta_files, idx, planned_moves, stats,
                   choice, exec_stats, collision_tracker, log, i, j, hist, fs0, prev>>
    /\ UNCHANGED svars

\* lines 260-261 without the continue: the declined plan is applied all the same
Decline_applies ==
    /\ pc = "loop"
    /\ i <= Len(planned_moves)
    /\ choice = "2"
    /\ confirm' = "n"
    /\ exec_stats' = [exec_stats EXCEPT !.skipped = @ + 1]
    /\ pc' = "exec"
    /\ UNCHANGED <<fs, dirs, logOK, faults, run, meta_files, idx, planned_moves,
                   stats, choice, collision_tracker, log, i, j, hist, fs0, prev>>
    /\ UNCHANGED svars

\* lines 260-261
Decline ==
    /\ pc = "loop"
    /\ i <= Len(planned_moves)
    /\ choice = "2"
    /\ confirm' = "n"
    /\ exec_stats' = [exec_stats EXCEPT !.skipped = @ + 1]
    /\ i' = i + 1
    /\ UNCHANGED <<fs, dirs, logOK, faults, pc, run, meta_files, idx, planned_moves,
                   stats, choice, collision_tracker, log, j, hist, fs0, prev>>
    /\ UNCHANGED svars

\* line 263 is reached: with choice '1', or on the answer 'y'
Approve ==
    /\ pc = "loop"
    /\ i <= Len(planned_moves)
    /\ confirm' = IF choice = "2" THEN "y" ELSE confirm
    /\ pc' = "exec"
    /\ UNCHANGED <<fs, dirs, logOK, faults, run, meta_files, idx, planned_moves, stats,
                   choice, exec_stats, collision_tracker, log, i, j, hist, fs0, prev>>
    /\ UNCHANGED svars

(***************************************************************************)
(* execute_move and what main() does with its result.                      *)
(***************************************************************************)
\* lines 91-93, then 266-267: an exception raised in the try block, with lg
\* the log so far and h the history so far.  When the log cannot be written
\* the handler's own log_event raises and the exception leaves main().
Except(lg, h) ==
    /\ log' = IF logOK' THEN Append(lg, ErrorEv) ELSE lg
    /\ pc' = IF logOK' THEN "loop" ELSE "crashed"
    /\ exec_stats' = IF logOK' THEN [exec_stats EXCEPT !.errors = @ + 1] ELSE exec_stats
    /\ i' = IF logOK' THEN i + 1 ELSE i
    /\ hist' = [h EXCEPT ![i].ret = IF logOK' THEN "false" ELSE "escaped"]

\* line 90, then 263-264
ReturnTrue(lg, h) ==
    /\ log' = lg
    /\ pc' = "loop"
    /\ exec_stats' = [exec_stats EXCEPT !.applied = @ + 1]
    /\ i' = i + 1
    /\ hist' = [h EXCEPT ![i].ret = "true"]

\* lines 70-74
StartBook ==
    /\ pc = "exec"
    /\ fs0' = fs
    /\ j' = 1
    /\ \E flt \in FaultsFor({"io", "log", "logdown"}) :
          /\ Inject(flt)
          /\ LET book_info == planned_moves[i]
                 h == [hist EXCEPT ![i].started = TRUE]
                 lg == Append(log, StartBookEv(book_info.title))
             IN  IF ~Written(flt) THEN Except(log, h) /\ dirs' = dirs
                 ELSE IF flt = "io" THEN Except(lg, h) /\ dirs' = dirs
                 ELSE /\ dirs' = mkdir(dirs, book_info.target_dir)
                      /\ log' = lg
                      /\ hist' = h
                      /\ pc' = "pairs"
                      /\ UNCHANGED <<exec_stats, i>>
    /\ UNCHANGED <<fs, run, meta_files, idx, planned_moves, stats, choice,
                   collision_tracker, confirm, prev>>
    /\ UNCHANGED svars

\* the pair (old_f, new_f) finds new_f taken by another file
Occupied(f, old_f, new_f) == is_file(f, old_f) /\ exists(f, new_f) /\ old_f # new_f

\* lines 75-86, one iteration
MovePair ==
    /\ pc = "pairs"
    /\ j <= Len(planned_moves[i].move_plan)
    /\ LET old_f == planned_moves[i].move_plan[j][1]
           new_f == planned_moves[i].move_plan[j][2]
           branch == pair_case(fs, old_f, new_f)
           seen == IF Occupied(fs, old_f, new_f)
                   THEN {[old |-> old_f, new |-> new_f,
                          old_c |-> (CHOOSE e \in At(fs, old_f) : TRUE).orig,
                          new_c |-> (CHOOSE e \in At(fs, new_f) : TRUE).orig]}
                   ELSE {}
           h == [hist EXCEPT ![i].occupied = @ \cup seen]
           done == [h EXCEPT ![i].pairs = @ + 1]
       IN  \/ /\ branch \in {"missing", "same"}
              /\ hist' = done
              /\ j' = j + 1
              /\ UNCHANGED <<fs, logOK, faults, pc, exec_stats, collision_tracker, log, i>>
           \/ /\ branch = "conflict"
              /\ \E flt \in FaultsFor({"log", "logdown"}) :
                    /\ Inject(flt)
                    /\ IF Written(flt)
                       THEN /\ log' = Append(log, ConflictEv(new_f.name))
                            /\ collision_tracker' = collision_tracker \cup {new_f.name}
                            /\ hist' = done
                            /\ j' = j + 1
                            /\ UNCHANGED <<pc, exec_stats, i>>
                       ELSE /\ Except(log, h)
                            /\ UNCHANGED <<collision_tracker, j>>
              /\ fs' = fs
           \/ /\ branch = "move"
              /\ \E flt \in FaultsFor({"io", "log", "logdown"}) :
                    /\ Inject(flt)
                    /\ IF flt = "io"
                       THEN /\ Except(log, h)
                            /\ UNCHANGED <<fs, j>>
                       ELSE /\ fs' = move(fs, old_f, new_f)
                            /\ IF Written(flt)
                               THEN /\ log' = Append(log, MovedEv(old_f.name, new_f.name))
                                    /\ hist' = done
                                    /\ j' = j + 1
                                    /\ UNCHANGED <<pc, exec_stats, i>>
                               ELSE /\ Except(log, h)
                                    /\ j' = j
              /\ UNCHANGED collision_tracker
    /\ UNCHANGED <<dirs, run, meta_files, idx, planned_moves, stats, choice, confirm,
                   fs0, prev>>
    /\ UNCHANGED svars

\* lines 87-90
Cleanup ==
    /\ pc = "pairs"
    /\ j > Len(planned_moves[i].move_plan)
    /\ LET old_book_dir == planned_moves[i].old_dir
       IN  IF should_cleanup(fs, dirs, old_book_dir)
           THEN \E flt \in FaultsFor({"io", "log", "logdown"}) :
                   /\ Inject(flt)
                   /\ IF flt = "io"
                      THEN /\ Except(log, hist)
                           /\ UNCHANGED <<fs, dirs>>
                      ELSE /\ fs' = rmtree_fs(fs, old_book_dir)
                           /\ dirs' = rmtree_dirs(dirs, old_book_dir)
                           /\ IF Written(flt)
                              THEN ReturnTrue(Append(log, CleanupEv(old_book_dir)), hist)
                              ELSE Except(log, hist)
           ELSE /\ ReturnTrue(log, hist)
                /\ UNCHANGED <<fs, dirs, logOK, faults>>
    /\ UNCHANGED <<run, meta_files, idx, planned_moves, stats, choice, collision_tracker,
                   j, confirm, fs0, prev>>
    /\ UNCHANGED svars

(***************************************************************************)
(* The program is run a second time on the library the first run left.     *)
(***************************************************************************)
Rerun ==
    /\ pc = "done"
    /\ run = 1
    /\ choice = "1"
    /\ run' = 2
    /\ prev' = [choice |-> choice, quit |-> (confirm = "q"),
                skipped |-> exec_stats.skipped, errors |-> exec_stats.errors,
                collisions |-> collision_tracker]
    /\ pc' = "start"
    /\ meta_files' = <<>>
    /\ idx' = 1
    /\ planned_moves' = <<>>
    /\ stats' = NoStats
    /\ choice' = ""
    /\ confirm' = ""
    /\ exec_stats' = NoExecStats
    /\ collision_tracker' = {}
    /\ i' = 0
    /\ j' = 0
    /\ hist' = <<>>
    /\ fs0' = {}
    /\ UNCHANGED <<fs, dirs, logOK, faults, log>>
    /\ UNCHANGED svars

Next ==
    \/ ListMeta
    \/ ScanItem
    \/ AlreadyTidy
    \/ ChooseExit
    \/ ChooseApply
    \/ Finish
    \/ Quit
    \/ Decline
    \/ Approve
    \/ StartBook
    \/ MovePair
    \/ Cleanup
    \/ Rerun

Spec == Init /\ [][Next]_vars

(***************************************************************************)
(* The pure functions, applied to every text of a bounded length.          *)
(***************************************************************************)
Texts(alphabet) == UNION {[1..n -> alphabet] : n \in 0..MaxLen}

Idle(at) ==
    /\ fs = {} /\ dirs = {} /\ logOK = TRUE /\ faults = 0 /\ run = 1 /\ log = <<>>
    /\ prev = NoPrev /\ meta_files = <<>> /\ idx = 1 /\ planned_moves = <<>>
    /\ stats = NoStats /\ choice = "" /\ confirm = "" /\ exec_stats = NoExecStats
    /\ collision_tracker = {} /\ i = 0 /\ j = 0 /\ hist = <<>> /\ fs0 = {}
    /\ pc = at

CleanAlphabet == {"[", "'", "]", ",", " ", "a"}
CleanInputs ==
    {None, ListV(<<>>)}
    \cup {StrV(s) : s \in Texts(CleanAlphabet)}
    \cup {ListV(<<StrV(s)>>) : s \in Texts(CleanAlphabet)}

InitClean ==
    /\ Idle("clean")
    /\ arg \in CleanInputs
    /\ res = <<>>
    /\ res2 = <<>>

CleanOnce ==
    /\ pc = "clean"
    /\ res' = clean_metadata(arg)
    /\ pc' = "cleaned"
    /\ UNCHANGED <<arg, res2>>
    /\ UNCHANGED <<fs, dirs, logOK, faults, run, meta_files, idx, planned_moves, stats,
                   choice, exec_stats, collision_tracker, log, i, j, hist, confirm, fs0,
                   prev>>

CleanTwice ==
    /\ pc = "cleaned"
    /\ res2' = clean_metadata(StrV(res))
    /\ pc' = "cleaned twice"
    /\ UNCHANGED <<arg, res>>
    /\ UNCHANGED <<fs, dirs, logOK, faults, run, meta_files, idx, planned_moves, stats,
                   choice, exec_stats, collision_tracker, log, i, j, hist, confirm, fs0,
                   prev>>

NextClean ==
    \/ CleanOnce
    \/ CleanTwice

SpecClean == InitClean /\ [][NextClean]_vars

\* series_field is a result of clean_metadata: it has no comma and no
\* whitespace at either end
SeriesAlphabet == {"F", "#", ".", "7", " "}
SeriesInputs == {s \in Texts(SeriesAlphabet) : strip(s) = s}

InitNumber ==
    /\ Idle("series")
    /\ arg \in SeriesInputs
    /\ res = <<>>
    /\ res2 = <<>>

\* lines 172-186
DeriveNumber ==
    /\ pc = "series"
    /\ res' = book_number_of(arg)
    /\ res2' = series_title_of(arg)
    /\ pc' = "numbered"
    /\ UNCHANGED arg
    /\ UNCHANGED <<fs, dirs, logOK, faults, run, meta_files, idx, planned_moves, stats,
                   choice, exec_stats, collision_tracker, log, i, j, hist, confirm, fs0,
                   prev>>

NextNumber == DeriveNumber

SpecNumber == InitNumber /\ [][NextNumber]_vars

(***************************************************************************)
(* C7.  Cleaning a cleaned value changes nothing:                          *)
(* clean_metadata(clean_metadata(x)) = clean_metadata(x) for every x.      *)
(***************************************************************************)
C7_CleanIdempotent == pc = "cleaned twice" => res2 = res

(***************************************************************************)
(* C8.  The book number is derived from the whole text after the first     *)
(* '#': with a '.', the part before the first '.' padded to two digits,    *)
(* a '.', and everything after that '.'; all digits, padded to two digits; *)
(* anything else, verbatim.                                                *)
(***************************************************************************)
AfterFirst(s, c) == SubSeq(s, First(s, c) + 1, Len(s))
BeforeFirst(s, c) == SubSeq(s, 1, First(s, c) - 1)
StatedNumber(series) ==
    LET raw == strip(AfterFirst(series, "#"))
    IN  IF Contains(raw, ".")
        THEN zfill2(BeforeFirst(raw, ".")) \o <<".">> \o AfterFirst(raw, ".")
        ELSE IF isdigit(raw) THEN zfill2(raw)
        ELSE raw

C8_BookNumber ==
    (pc = "numbered" /\ Contains(arg, "#")) => res = StatedNumber(arg)

(***************************************************************************)
(* Vocabulary of the claims about the pipeline.                            *)
(***************************************************************************)
RegularFiles(f, d) == {PathOf(e) : e \in {x \in iterdir(f, d) : x.data # "sub"}}
Sources(plan) == {plan.move_plan[k][1] : k \in 1..Len(plan.move_plan)}
ContentAt(f, p) == (CHOOSE e \in At(f, p) : TRUE).orig
Holds(f, c) == \E e \in f : e.orig = c /\ e.data # "sub"
Logged(ev) == \E k \in 1..Len(log) : log[k].ev = ev

\* execute_move has returned for the plan before i, and no plan began since
Returned == pc = "loop" /\ i > 1 /\ hist[i - 1].ret \in {"true", "false"}

(***************************************************************************)
(* C1.  After a first run that applied every plan (choice '1') with no     *)
(* fault of the environment, the scan of the second run emits no plan.     *)
(***************************************************************************)
C1_SecondScanEmpty ==
    (run = 2 /\ ScanComplete /\ prev.choice = "1" /\ faults = 0) => planned_moves = <<>>

(***************************************************************************)
(* C2.  When execute_move has returned, every pair it met whose            *)
(* destination was taken by another file has both files still in the       *)
(* library and the destination's filename in the collision set.            *)
(***************************************************************************)
C2_CollisionSafety ==
    Returned =>
        \A o \in hist[i - 1].occupied :
            /\ Holds(fs, o.old_c)
            /\ Holds(fs, o.new_c)
            /\ o.new.name \in collision_tracker

(***************************************************************************)
(* C3.  The sources of every plan are exactly the regular files directly   *)
(* inside its source directory at scan time, each exactly once.            *)
(***************************************************************************)
C3_Coverage ==
    pc = "scan" =>
        \A k \in 1..Len(planned_moves) :
            /\ Sources(planned_moves[k]) = RegularFiles(fs, planned_moves[k].old_dir)
            /\ Len(planned_moves[k].move_plan) = Cardinality(Sources(planned_moves[k]))

(***************************************************************************)
(* C4.  When execute_move returns true, every pair whose source was a      *)
(* regular file at the start has that file at its destination, and no      *)
(* pair of the plan was left in place by a collision.                      *)
(***************************************************************************)
C4_TrueMeansApplied ==
    (Returned /\ hist[i - 1].ret = "true") =>
        /\ \A k \in 1..Len(planned_moves[i - 1].move_plan) :
              LET old_f == planned_moves[i - 1].move_plan[k][1]
                  new_f == planned_moves[i - 1].move_plan[k][2]
              IN  is_file(fs0, old_f) =>
                      /\ exists(fs, new_f)
                      /\ ContentAt(fs, new_f) = ContentAt(fs0, old_f)
        /\ hist[i - 1].occupied = {}

(***************************************************************************)
(* C5.  An error raised while a plan is applied never leaves execute_move: *)
(* the plan reports failure and the loop goes on to the next plan.         *)
(***************************************************************************)
C5_ErrorsContained ==
    /\ \A k \in 1..Len(hist) : hist[k].ret # "escaped"
    /\ (pc = "crashed" => i = 0)

(***************************************************************************)
(* C6.  An item whose document is malformed leaves every statistic and the *)
(* list of plans as they would be without the item.                        *)
(***************************************************************************)
Malformed(data) == data.json # "map" \/ data.metaT = "null"

RECURSIVE ScanOf(_, _, _)
ScanOf(f, paths, acc) ==
    IF paths = <<>> THEN acc
    ELSE LET r == scan_item(f, CHOOSE x \in At(f, Head(paths)) : TRUE, acc.stats)
         IN  ScanOf(f, Tail(paths), [stats |-> r.stats, plans |-> acc.plans \o r.plans])

WellFormedOnly(f, paths) ==
    SelectSeq(paths, LAMBDA p : ~Malformed(DocOf((CHOOSE x \in At(f, p) : TRUE).data)))

C6_MalformedItemInvisible ==
    ScanComplete =>
        LET without == ScanOf(fs, WellFormedOnly(fs, meta_files),
                              [stats |-> NoStats, plans |-> <<>>])
        IN  stats = without.stats /\ planned_moves = without.plans

(***************************************************************************)
(* C9 as stated.  A quit at plan k starts no plan from k on; a declined    *)
(* plan is counted as skipped and never started; every started plan has    *)
(* processed every pair of its move_plan once the loop is back at its      *)
(* head; at the end applied + skipped + errors is the number of plans      *)
(* reached before the quit.                                                *)
(***************************************************************************)
AtLoopHead == pc \in {"loop", "done"}
NoneStartedFrom(k) ==
    \A m \in k..Len(hist) : ~hist[m].started /\ hist[m].pairs = 0 /\ hist[m].ret = "none"

C9_QuitOnlyStopsLater ==
    AtLoopHead =>
        /\ NoneStartedFrom(i)
        /\ exec_stats.skipped = Cardinality({k \in 1..(i - 1) : ~hist[k].started})
        /\ \A k \in 1..(i - 1) :
              hist[k].started => hist[k].pairs = Len(planned_moves[k].move_plan)
        /\ exec_stats.applied + exec_stats.skipped + exec_stats.errors = i - 1

(***************************************************************************)
(* C9 as amended.  The same, except that a started plan has processed      *)
(* every pair of its move_plan or has been ended by an error and reported  *)
(* failure.                                                                *)
(***************************************************************************)
C9_QuitOnlyStopsLaterOrError ==
    AtLoopHead =>
        /\ NoneStartedFrom(i)
        /\ exec_stats.skipped = Cardinality({k \in 1..(i - 1) : ~hist[k].started})
        /\ \A k \in 1..(i - 1) :
              hist[k].started =>
                  \/ hist[k].ret = "true"
                     /\ hist[k].pairs = Len(planned_moves[k].move_plan)
                  \/ hist[k].ret = "false"
                     /\ hist[k].pairs <= Len(planned_moves[k].move_plan)
        /\ exec_stats.errors = Cardinality({k \in 1..(i - 1) : hist[k].ret = "false"})
        /\ exec_stats.applied + exec_stats.skipped + exec_stats.errors = i - 1

\* a review session that declined a plan, applied one, and was quit before
\* the end of the list
C9_Witness ==
    /\ pc = "done"
    /\ confirm = "q"
    /\ i <= Len(planned_moves)
    /\ exec_stats.applied + exec_stats.skipped >= 1
    /\ \E k \in 1..(i - 1) : hist[k].started /\ hist[k].pairs >= 2

(***************************************************************************)
(* C10.  No step deletes or overwrites a file: every step keeps the        *)
(* contents of the library, puts a file only at a path that was free, and  *)
(* removes a directory only if it had no entry.                            *)
(***************************************************************************)
C10_FilesConserved ==
    [][/\ Contents(fs') = Contents(fs)
       /\ Cardinality(fs') = Cardinality(fs)
       /\ \A e \in fs' \ fs : ~exists(fs, PathOf(e))
       /\ \A d \in dirs \ dirs' : ~HasEntries(fs, dirs, d)]_vars

\* a plan moved files into the source directory of another plan, a plan
\* failed, and a source directory was cleaned up
C10_Witness ==
    /\ pc = "done"
    /\ \E a, b \in 1..Len(planned_moves) :
          /\ a # b
          /\ planned_moves[a].target_dir = planned_moves[b].old_dir
          /\ \E e \in fs : e.dir = planned_moves[a].target_dir
                           /\ e.orig.dir = planned_moves[a].old_dir
    /\ Logged("CLEANUP")
    /\ exec_stats.errors >= 1

====
